---- MODULE Spec2Model ----
(***************************************************************************)
(* Model of disk_size.py: the dispatcher (__main__), the constructor of    *)
(* DiskCheckerAbstractClass and the check_disks / check_specific_drive     *)
(* operations of LinuxOSDiskChecker and WindowsOSDiskChecker.              *)
(*                                                                         *)
(* Text is a sequence of one-character strings, so that the string         *)
(* operations of the program (int(), strip(), split(), replace(), grep,    *)
(* str(), format) are computed and not assumed.  A printed line is a       *)
(* record [fmt, args]: the format string of the print statement and the    *)
(* texts substituted into it.                                              *)
(***************************************************************************)
EXTENDS Integers, Sequences, FiniteSets, TLC

\* ------------------------------------------------------------------ bounds
MaxRows == 2        \* most lines `lsblk -o NAME,TYPE,SIZE` prints
MaxScoped == 2      \* most lines `lsblk <path> -o NAME,TYPE,SIZE` prints
MaxDisks == 2       \* most Win32_DiskDrive objects
MaxVolumes == 2     \* most psutil.disk_partitions() entries

SeqsUpTo(S, n) == UNION {[1..k -> S] : k \in 0..n}

\* ---------------------------------------------------- Python text helpers
IsSpace(c) == c \in {" ", "\n", "\t"}

IsDigit(c) == c \in {"0", "1", "2", "3", "4", "5", "6", "7", "8", "9"}

DigitVal(c) ==
    CASE c = "0" -> 0 [] c = "1" -> 1 [] c = "2" -> 2 [] c = "3" -> 3
      [] c = "4" -> 4 [] c = "5" -> 5 [] c = "6" -> 6 [] c = "7" -> 7
      [] c = "8" -> 8 [] c = "9" -> 9

DigitChar(d) == <<"0", "1", "2", "3", "4", "5", "6", "7", "8", "9">>[d + 1]

RECURSIVE StripLeft(_)
StripLeft(s) ==
    IF s # <<>> /\ IsSpace(Head(s)) THEN StripLeft(Tail(s)) ELSE s

RECURSIVE StripRight(_)
StripRight(s) ==
    IF s # <<>> /\ IsSpace(s[Len(s)])
    THEN StripRight(SubSeq(s, 1, Len(s) - 1))
    ELSE s

\* str.strip()
Strip(s) == StripRight(StripLeft(s))

\* str.split(sep) with an explicit separator: empty fields are kept
RECURSIVE SplitOn(_, _)
SplitOn(s, sep) ==
    IF \E i \in 1..Len(s) : s[i] = sep
    THEN LET i == CHOOSE k \in 1..Len(s) :
                    s[k] = sep /\ \A j \in 1..(k - 1) : s[j] # sep
         IN  <<SubSeq(s, 1, i - 1)>> \o SplitOn(SubSeq(s, i + 1, Len(s)), sep)
    ELSE <<s>>

\* str.split() without separator: runs of whitespace separate, no empty fields
RECURSIVE SplitWs(_)
SplitWs(s) ==
    LET t == StripLeft(s)
    IN  IF t = <<>> THEN <<>>
        ELSE LET ends == {k \in 1..Len(t) : IsSpace(t[k])}
                 i == IF ends = {} THEN Len(t) + 1
                      ELSE CHOOSE k \in ends : \A j \in ends : k <= j
             IN  <<SubSeq(t, 1, i - 1)>> \o SplitWs(SubSeq(t, i, Len(t)))

\* grep 'pat': the line contains pat somewhere
Contains(s, pat) ==
    \E i \in 1..(Len(s) - Len(pat) + 1) : SubSeq(s, i, i + Len(pat) - 1) = pat

\* str.replace(c, '')
RECURSIVE RemoveChar(_, _)
RemoveChar(s, c) ==
    IF s = <<>> THEN <<>>
    ELSE (IF Head(s) = c THEN <<>> ELSE <<Head(s)>>) \o RemoveChar(Tail(s), c)

\* ''.join(lines)
RECURSIVE Concat(_)
Concat(lines) ==
    IF lines = <<>> THEN <<>> ELSE Head(lines) \o Concat(Tail(lines))

RECURSIVE DigitsVal(_, _)
DigitsVal(s, acc) ==
    IF s = <<>> THEN acc
    ELSE DigitsVal(Tail(s), IF Head(s) = "_" THEN acc ELSE 10 * acc + DigitVal(Head(s)))

\* int(text): surrounding whitespace is ignored, one optional sign, then
\* digits (single underscores between digits allowed).  ok = FALSE stands
\* for ValueError.
ParseInt(s) ==
    LET t == Strip(s)
        signed == t # <<>> /\ Head(t) \in {"+", "-"}
        body == IF signed THEN Tail(t) ELSE t
        wellFormed ==
            /\ body # <<>>
            /\ \A i \in 1..Len(body) : IsDigit(body[i]) \/ body[i] = "_"
            /\ IsDigit(body[1]) /\ IsDigit(body[Len(body)])
            /\ \A i \in 1..(Len(body) - 1) : ~(body[i] = "_" /\ body[i + 1] = "_")
    IN  IF ~wellFormed THEN [ok |-> FALSE, val |-> 0]
        ELSE [ok |-> TRUE,
              val |-> IF signed /\ Head(t) = "-"
                      THEN 0 - DigitsVal(body, 0) ELSE DigitsVal(body, 0)]

RECURSIVE NatStr(_)
NatStr(n) ==
    IF n < 10 THEN <<DigitChar(n)>>
    ELSE NatStr(n \div 10) \o <<DigitChar(n % 10)>>

\* str(n)
Str(n) == IF n < 0 THEN <<"-">> \o NatStr(0 - n) ELSE NatStr(n)

\* list[k] with Python's index rule: 0-based, a negative k counts from the
\* end, anything else is IndexError (ok = FALSE; at is then meaningless)
PyIndex(list, k) ==
    LET n == Len(list)
    IN  IF 0 <= k /\ k < n THEN [ok |-> TRUE, at |-> k + 1]
        ELSE IF k < 0 /\ 0 - n <= k THEN [ok |-> TRUE, at |-> n + k + 1]
        ELSE [ok |-> FALSE, at |-> 0]

Line(fmt, args) == [fmt |-> fmt, args |-> args]

\* ------------------------------------------------------------ environment
\* os.name
OSNames == {"posix", "nt", "java"}

\* Texts given as sys.argv[1]: "", "0", "1", "2", "3", "5", "-1", "-2", "-5",
\* " 2", "+1", "a", "2a", "1.5", "-n", "/dev/sda"
Selectors ==
    { <<>>,
      <<"0">>,
      <<"1">>,
      <<"2">>,
      <<"3">>,
      <<"5">>,
      <<"-", "1">>,
      <<"-", "2">>,
      <<"-", "5">>,
      <<" ", "2">>,
      <<"+", "1">>,
      <<"a">>,
      <<"2", "a">>,
      <<"1", ".", "5">>,
      <<"-", "n">>,
      <<"/", "d", "e", "v", "/", "s", "d", "a">> }

\* sys.argv[1:]: no argument, or one selector
Argvs == {<<>>} \cup {<<s>> : s \in Selectors}

TextDisk == <<"d", "i", "s", "k">>

RowSda == <<"s", "d", "a", " ", " ", "d", "i", "s", "k", " ", "1", "T", "\n">>
RowSdb == <<"s", "d", "b", " ", "d", "i", "s", "k", " ", "2", "T", "\n">>
RowSda1 == <<"s", "d", "a", "1", " ", "p", "a", "r", "t", " ", "1", "G", "\n">>
RowVdisk == <<"v", "d", "i", "s", "k", " ", "p", "a", "r", "t", " ", "2", "G", "\n">>
RowHeader == <<"N", "A", "M", "E", " ", "T", "Y", "P", "E", " ", "S", "I", "Z", "E", "\n">>
RowBlank == <<"\n">>

\* what `lsblk -o NAME,TYPE,SIZE` can print, line by line (readlines keeps
\* the newline); the pipe into grep is LinuxGrepDisk below
LsblkOutputs == SeqsUpTo({RowSda, RowSdb, RowSda1, RowVdisk}, MaxRows)

\* what `lsblk <path> -o NAME,TYPE,SIZE` can print: nothing (stderr only),
\* or any lines
ScopedOutputs == SeqsUpTo({RowHeader, RowSda, RowBlank}, MaxScoped)

\* Win32_DiskDrive objects: \\.\PD0 "Disk" 2048 bytes, \\.\PD1 "USB" 900 bytes
Win32DiskPool ==
    { [DeviceID |-> <<"\\", "\\", ".", "\\", "P", "D", "0">>, Description |-> <<"D", "i", "s", "k">>, size |-> <<"2", "0", "4", "8">>],
      [DeviceID |-> <<"\\", "\\", ".", "\\", "P", "D", "1">>, Description |-> <<"U", "S", "B">>, size |-> <<"9", "0", "0">>] }

Win32DiskLists == SeqsUpTo(Win32DiskPool, MaxDisks)

\* psutil.disk_partitions() entries, by their text: "C:", "D:"
VolumePool == { <<"C", ":">>, <<"D", ":">> }

VolumeLists == SeqsUpTo(VolumePool, MaxVolumes)

\* disk = sys.argv[1] if len(sys.argv) > 1 else None
NoneValue == [some |-> FALSE, val |-> <<>>]

Some(text) == [some |-> TRUE, val |-> text]

\* Python truth value of `hard_drive`: None and '' are false
Truthy(d) == d.some /\ d.val # <<>>

\* ------------------------------------------------------------ printed lines
LinuxOutOfRange == Line("Please enter the correct hard drive id!", <<>>)

LinuxNotFound(inp) == Line("Drive {} not found!", <<inp>>)

LinuxPartitionsHeader(name) ==
    Line("Below are the partitions for \"/dev/{}\" drive:", <<name>>)

LinuxPartitionsBody(partitions) == Line("{}", <<Concat(partitions)>>)

WindowsOutOfRange_AsUsageHint ==
    Line("Please enter valid disk (whole) number! Reference below. \n", <<>>)

WindowsOutOfRange ==
    Line("Disk with that index does not exist! Please try again.", <<>>)

WindowsUsageHint ==
    Line("Please enter valid disk (whole) number! Reference below. \n", <<>>)

Unsupported == Line("OS not supported!", <<>>)

\* ------------------------------------------- LinuxOSDiskChecker, pure part
TextDev == <<"/", "d", "e", "v", "/">>
TextDrive == <<"d", "r", "i", "v", "e">>
TextDrives == <<"d", "r", "i", "v", "e", "s">>

\* os.popen("lsblk -o NAME,TYPE,SIZE | grep 'disk'").readlines()
LinuxGrepDisk(lines) == SelectSeq(lines, LAMBDA l : Contains(l, TextDisk))

\* hard_drives = [disk.strip().split(' ') for disk in ...]
LinuxHardDrives(lines) ==
    LET kept == LinuxGrepDisk(lines)
    IN  [i \in 1..Len(kept) |-> SplitOn(Strip(kept[i]), " ")]

\* hard_drives_data = [['/dev/' + drive[0], drive[-1]] for drive in hard_drives]
LinuxHardDrivesData(lines) ==
    LET hard_drives == LinuxHardDrives(lines)
    IN  [i \in 1..Len(hard_drives) |->
            <<TextDev \o hard_drives[i][1], hard_drives[i][Len(hard_drives[i])]>>]

\* the printing form of check_disks
LinuxReport(data) ==
    <<Line("You have {} hard {} installed: \n",
           <<Str(Len(data)), IF Len(data) > 1 THEN TextDrives ELSE TextDrive>>)>>
    \o [i \in 1..Len(data) |->
            Line("{}. {} -> {}", <<Str(i), data[i][1], data[i][2]>>)]

\* mutant of LinuxHardDriveId: the index is used as it was typed
LinuxHardDriveId_NoSubtract(inp) == ParseInt(inp).val

\* hard_drive_id = int(inp) - 1
LinuxHardDriveId(inp) == ParseInt(inp).val - 1

\* mutant of LinuxLiteralPath: the device root is put before the selector
LinuxLiteralPath_Prefixed(inp) == TextDev \o inp

\* except ValueError: hard_drive_path = inp
LinuxLiteralPath(inp) == inp

\* ----------------------------------------- WindowsOSDiskChecker, pure part
\* hurry.filesize.size with the default (traditional) system: the first
\* factor, largest first, that the amount reaches; int(bytes / factor) and
\* the factor's suffix.  The sizes of the model are below 2^31, so the
\* factors above G never apply and are left out.
HurrySize(bytes) ==
    LET system == << <<1024 * 1024 * 1024, "G">>, <<1024 * 1024, "M">>,
                     <<1024, "K">>, <<1, "B">> >>
        hits == {i \in 1..Len(system) : bytes >= system[i][1]}
        i == IF hits = {} THEN Len(system)
             ELSE CHOOSE k \in hits : \A j \in hits : k <= j
    IN  Str(bytes \div system[i][1]) \o <<system[i][2]>>

\* drives_data = [[index, DeviceID without '.' and '\', Description,
\*                 size(int(d.size))] for index, d in enumerate(..., start=1)]
\* `index` stays a number until it is printed; `volume` holds what
\* check_disks(return_data=True) appends to the list afterwards.
WindowsDrivesData(disks) ==
    [i \in 1..Len(disks) |->
        [index |-> i,
         fields |-> <<RemoveChar(RemoveChar(disks[i].DeviceID, "."), "\\"),
                      disks[i].Description,
                      HurrySize(ParseInt(disks[i].size).val)>>,
         volume |-> <<>>]]

\* mutant of WindowsZipVolumes: pairing starts one disk late
WindowsZipVolumes_Shifted(drives, volumes) ==
    [i \in 1..Len(drives) |->
        IF 1 < i /\ i - 1 <= Len(volumes)
        THEN [drives[i] EXCEPT !.volume = Append(@, volumes[i - 1])]
        ELSE drives[i]]

\* [drive.append(volume) for (drive, volume) in zip(drives_data, volumes)]
WindowsZipVolumes(drives, volumes) ==
    [i \in 1..Len(drives) |->
        IF i <= Len(volumes)
        THEN [drives[i] EXCEPT !.volume = Append(@, volumes[i])]
        ELSE drives[i]]

\* '  '.join([str(x) for x in drive])
WindowsJoin(drive) ==
    Line("'  '.join", <<Str(drive.index)>> \o drive.fields \o drive.volume)

\* the printing form of check_disks
WindowsReport(drives) ==
    <<Line("You have {} hard drives installed", <<Str(Len(drives))>>)>>
    \o [i \in 1..Len(drives) |-> WindowsJoin(drives[i])]

\* disk_id = int(inp) - 1
WindowsDiskId(inp) == ParseInt(inp).val - 1

\* ------------------------------------------------------------- dispatcher
\* mutant of SelectBackend: every OS that is not Windows counts as POSIX
SelectBackend_ElsePosix(name) ==
    IF name = "nt" THEN "WindowsOSDiskChecker" ELSE "LinuxOSDiskChecker"

\* if os.name == 'posix' ... elif os.name == 'nt' ... else
SelectBackend(name) ==
    IF name = "posix" THEN "LinuxOSDiskChecker"
    ELSE IF name = "nt" THEN "WindowsOSDiskChecker"
    ELSE "none"

\* if hard_drive: check_specific_drive(hard_drive) else: check_disks()
InitOperation(hard_drive) ==
    IF Truthy(hard_drive) THEN "check_specific_drive" ELSE "check_disks"

\* ------------------------------------------------------------------ state
VARIABLES
    osName,            \* os.name
    argv,              \* sys.argv[1:]
    lsblk,             \* what the listing command prints on this host
    win32_disks,       \* what cas.Win32_DiskDrive() returns on this host
    volumes,           \* what psutil.disk_partitions() returns on this host
    pc,                \* "main", "__init__", "check_disks",
                       \* "check_specific_drive", "done", "fault"
    disk,              \* the dispatcher's `disk`
    constructed,       \* the backends constructed so far
    started,           \* the operation the constructor started, or "none"
    out,               \* standard output, one record per print
    enumCalls,         \* enumerations of the disks performed so far
    scopedCalls,       \* the paths the scoped listing command was run with
    partitions,        \* what the scoped listing command printed
    disks_list,        \* LinuxOSDiskChecker.check_specific_drive: the list
                       \* check_disks(return_data=True) returned to it
    hard_drives,       \* WindowsOSDiskChecker.check_specific_drive: the same
    fault              \* the exception that left the program, or "none"

vars == <<osName, argv, lsblk, win32_disks, volumes, pc, disk, constructed,
          started, out, enumCalls, scopedCalls, partitions, disks_list,
          hard_drives, fault>>

env == <<osName, argv, lsblk, win32_disks, volumes>>

Init ==
    /\ osName \in OSNames
    /\ argv \in Argvs
    /\ lsblk \in (IF osName = "posix" THEN LsblkOutputs ELSE {<<>>})
    /\ win32_disks \in (IF osName = "nt" THEN Win32DiskLists ELSE {<<>>})
    /\ volumes \in (IF osName = "nt" THEN VolumeLists ELSE {<<>>})
    /\ pc = "main"
    /\ disk = NoneValue
    /\ constructed = <<>>
    /\ started = "none"
    /\ out = <<>>
    /\ enumCalls = 0
    /\ scopedCalls = <<>>
    /\ partitions = <<>>
    /\ disks_list = <<>>
    /\ hard_drives = <<>>
    /\ fault = "none"

Backend == IF constructed = <<>> THEN "none" ELSE constructed[Len(constructed)]

\* ---------------------------------------------------------------- actions
\* __main__: read the selector, pick the backend by os.name and construct it
Main ==
    /\ pc = "main"
    /\ disk' = (IF Len(argv) > 0 THEN Some(argv[1]) ELSE NoneValue)
    /\ IF SelectBackend(osName) = "none"
       THEN /\ out' = Append(out, Unsupported)
            /\ pc' = "done"
            /\ UNCHANGED constructed
       ELSE /\ constructed' = Append(constructed, SelectBackend(osName))
            /\ pc' = "__init__"
            /\ UNCHANGED out
    /\ UNCHANGED <<env, started, enumCalls, scopedCalls, partitions,
                   disks_list, hard_drives, fault>>

\* DiskCheckerAbstractClass.__init__
DiskCheckerInit ==
    /\ pc = "__init__"
    /\ started' = InitOperation(disk)
    /\ pc' = InitOperation(disk)
    /\ UNCHANGED <<env, disk, constructed, out, enumCalls, scopedCalls,
                   partitions, disks_list, hard_drives, fault>>

\* LinuxOSDiskChecker.check_disks() as the constructor calls it
LinuxCheckDisks ==
    /\ pc = "check_disks"
    /\ Backend = "LinuxOSDiskChecker"
    /\ enumCalls' = enumCalls + 1
    /\ out' = out \o LinuxReport(LinuxHardDrivesData(lsblk))
    /\ pc' = "done"
    /\ UNCHANGED <<env, disk, constructed, started, scopedCalls, partitions,
                   disks_list, hard_drives, fault>>

\* LinuxOSDiskChecker.check_specific_drive(inp), lines 76-83: the scoped
\* listing command run with hard_drive_path and having printed `lines`
LinuxShowPartitions(inp, hard_drive_path, lines) ==
    /\ scopedCalls' = Append(scopedCalls, hard_drive_path)
    /\ partitions' = lines
    /\ IF lines # <<>>
       THEN IF Len(lines) < 2 \/ SplitWs(lines[2]) = <<>>
            THEN \* partitions[1] or .split()[0] raises; nothing is printed
                 /\ fault' = "IndexError"
                 /\ pc' = "fault"
                 /\ UNCHANGED out
            ELSE /\ out' = out \o <<LinuxPartitionsHeader(SplitWs(lines[2])[1]),
                                    LinuxPartitionsBody(lines)>>
                 /\ pc' = "done"
                 /\ UNCHANGED fault
       ELSE /\ out' = Append(out, LinuxNotFound(inp))
            /\ pc' = "done"
            /\ UNCHANGED fault

\* LinuxOSDiskChecker.check_specific_drive(inp)
LinuxCheckSpecificDrive ==
    /\ pc = "check_specific_drive"
    /\ Backend = "LinuxOSDiskChecker"
    /\ LET inp == disk.val
           returned == LinuxHardDrivesData(lsblk)
           at == PyIndex(returned, LinuxHardDriveId(inp))
       IN  IF ParseInt(inp).ok
           THEN IF at.ok
                THEN /\ disks_list' = returned
                     /\ enumCalls' = enumCalls + 1
                     /\ \E lines \in ScopedOutputs :
                            LinuxShowPartitions(inp, returned[at.at][1], lines)
                ELSE \* except IndexError: message, check_disks(), return
                     /\ disks_list' = returned
                     /\ enumCalls' = enumCalls + 2
                     /\ out' = Append(out, LinuxOutOfRange) \o LinuxReport(returned)
                     /\ pc' = "done"
                     /\ UNCHANGED <<scopedCalls, partitions, fault>>
           ELSE \* except ValueError: no enumeration has happened
                /\ UNCHANGED <<disks_list, enumCalls>>
                /\ \E lines \in ScopedOutputs :
                       LinuxShowPartitions(inp, LinuxLiteralPath(inp), lines)
    /\ UNCHANGED <<env, disk, constructed, started, hard_drives>>

\* WindowsOSDiskChecker.check_disks() as the constructor calls it
WindowsCheckDisks ==
    /\ pc = "check_disks"
    /\ Backend = "WindowsOSDiskChecker"
    /\ enumCalls' = enumCalls + 1
    /\ out' = out \o WindowsReport(WindowsDrivesData(win32_disks))
    /\ pc' = "done"
    /\ UNCHANGED <<env, disk, constructed, started, scopedCalls, partitions,
                   disks_list, hard_drives, fault>>

\* WindowsOSDiskChecker.check_specific_drive(inp)
WindowsCheckSpecificDrive ==
    /\ pc = "check_specific_drive"
    /\ Backend = "WindowsOSDiskChecker"
    /\ LET inp == disk.val
           returned == WindowsZipVolumes(WindowsDrivesData(win32_disks), volumes)
           at == PyIndex(returned, WindowsDiskId(inp))
       IN  IF ~ParseInt(inp).ok
           THEN \* except ValueError: hint, check_disks(), return
                /\ UNCHANGED hard_drives
                /\ enumCalls' = enumCalls + 1
                /\ out' = Append(out, WindowsUsageHint)
                              \o WindowsReport(WindowsDrivesData(win32_disks))
           ELSE IF at.ok
           THEN /\ hard_drives' = returned
                /\ enumCalls' = enumCalls + 1
                /\ out' = Append(out, WindowsJoin(returned[at.at]))
           ELSE \* except IndexError: message, check_disks()
                /\ hard_drives' = returned
                /\ enumCalls' = enumCalls + 2
                /\ out' = Append(out, WindowsOutOfRange)
                              \o WindowsReport(WindowsDrivesData(win32_disks))
    /\ pc' = "done"
    /\ UNCHANGED <<env, disk, constructed, started, scopedCalls, partitions,
                   disks_list, fault>>

Next ==
    \/ Main
    \/ DiskCheckerInit
    \/ LinuxCheckDisks
    \/ LinuxCheckSpecificDrive
    \/ WindowsCheckDisks
    \/ WindowsCheckSpecificDrive

Spec == Init /\ [][Next]_vars

\* ----------------------------------------------------------------- claims
Finished == pc \in {"done", "fault"}

DescribeOneRan == Finished /\ started = "check_specific_drive"

OnLinux == Backend = "LinuxOSDiskChecker"

OnWindows == Backend = "WindowsOSDiskChecker"

\* the selector is integer-parseable, and its value
SelectorIsInt == ParseInt(disk.val).ok

SelectorInt == ParseInt(disk.val).val

\* N: the number of disks the fresh enumeration returned to describe-one
EnumeratedCount == IF OnLinux THEN Len(disks_list) ELSE Len(hard_drives)

\* C1: for both backends, an integer selector outside [1, N] (0 and the
\* negative ones included) makes describe-one print the backend's
\* out-of-range message followed by the full enumerate-all report, query or
\* print no single disk, and raise no unhandled fault.
C1_OutOfRangeReported ==
    (DescribeOneRan /\ SelectorIsInt /\ SelectorInt \notin 1..EnumeratedCount)
    => /\ fault = "none"
       /\ scopedCalls = <<>>
       /\ OnLinux =>
            out = <<LinuxOutOfRange>> \o LinuxReport(LinuxHardDrivesData(lsblk))
       /\ OnWindows =>
            out = <<WindowsOutOfRange>> \o WindowsReport(WindowsDrivesData(win32_disks))

\* C2: for both backends, an integer selector i with 1 <= i <= N selects the
\* i-th element (1-based) of the list enumerate-all(returnData=true)
\* returned: on POSIX the scoped listing command is run with that element's
\* device path, on Windows the printed fields are that element's fields.
C2_SelectsIthElement ==
    (DescribeOneRan /\ SelectorIsInt /\ SelectorInt \in 1..EnumeratedCount)
    => /\ OnLinux => scopedCalls = <<disks_list[SelectorInt][1]>>
       /\ OnWindows =>
            out = <<Line("'  '.join",
                         <<Str(SelectorInt)>> \o hard_drives[SelectorInt].fields
                             \o hard_drives[SelectorInt].volume)>>

\* POSIX, two different disks listed, selector "2": the second one is queried
C2_Witness ==
    /\ pc = "done" /\ OnLinux /\ started = "check_specific_drive"
    /\ disk.val = <<"2">>
    /\ Len(disks_list) = 2 /\ disks_list[1] # disks_list[2]
    /\ scopedCalls = <<disks_list[2][1]>>

\* C3: the constructor runs describe-one whenever a selector is provided
\* (every selector text, the empty one and "0" included) and enumerate-all
\* only when none is provided; exactly one of the two is started.
C3_SelectorRunsDescribeOne ==
    (constructed # <<>> /\ pc \notin {"main", "__init__"})
    => started = (IF disk.some THEN "check_specific_drive" ELSE "check_disks")

\* C4: for every selector and every output of the listing command or the OS
\* queries, construction ends in "printed report or single-record
\* description" and no parse or index error escapes as an unhandled fault.
C4_NoUnhandledFault == pc # "fault" /\ fault = "none"

\* C5: on POSIX, once describe-one has a device path: if the scoped listing
\* command yields at least one line, a header naming the first token of the
\* second output line is printed followed by all lines verbatim; if it
\* yields none, 'Drive <selector> not found!' naming the original selector
\* is printed and enumerate-all is not run as a fallback.
C5_ScopedOutputDecides ==
    (OnLinux /\ Finished /\ scopedCalls # <<>>)
    => IF partitions # <<>>
       THEN /\ pc = "done"
            /\ Len(partitions) >= 2
            /\ SplitWs(partitions[2]) # <<>>
            /\ Len(out) = 2
            /\ out[1].fmt = "Below are the partitions for \"/dev/{}\" drive:"
            /\ out[1].args = <<SplitWs(partitions[2])[1]>>
            /\ out[2].args = <<Concat(partitions)>>
       ELSE /\ pc = "done"
            /\ out = <<Line("Drive {} not found!", <<disk.val>>)>>
            /\ enumCalls <= 1

\* C6: on POSIX, a selector that is not integer-parseable causes no
\* enumeration and no index lookup, is passed unchanged as the device path to
\* the scoped listing command, and the parse error does not escape.
C6_NonIntegerIsLiteralPath ==
    (OnLinux /\ DescribeOneRan /\ ~SelectorIsInt)
    => /\ enumCalls = 0
       /\ disks_list = <<>>
       /\ scopedCalls = <<disk.val>>
       /\ fault # "ValueError"

\* POSIX, selector "/dev/sda": the command ran with it and printed something
C6_Witness ==
    /\ pc = "done" /\ OnLinux /\ started = "check_specific_drive"
    /\ disk.val = <<"/", "d", "e", "v", "/", "s", "d", "a">>
    /\ scopedCalls = <<disk.val>>
    /\ partitions # <<>>

\* C7: on Windows, a selector that is not integer-parseable makes
\* describe-one print the usage hint followed by the full enumerate-all
\* report, never a single disk record and never a path query; the hint
\* differs from the out-of-range message, and an integer-parseable selector
\* never produces the hint.
C7_NonIntegerGetsUsageHint ==
    (OnWindows /\ DescribeOneRan)
    => /\ ~SelectorIsInt =>
            /\ out = <<Line("Please enter valid disk (whole) number! Reference below. \n", <<>>)>>
                     \o WindowsReport(WindowsDrivesData(win32_disks))
            /\ scopedCalls = <<>>
       /\ SelectorIsInt =>
            \A k \in 1..Len(out) :
                out[k].fmt # "Please enter valid disk (whole) number! Reference below. \n"
       /\ WindowsUsageHint # WindowsOutOfRange

\* Windows, two disks, selector "a": hint, count line and the two disks
C7_Witness ==
    /\ pc = "done" /\ OnWindows /\ started = "check_specific_drive"
    /\ disk.val = <<"a">>
    /\ Len(win32_disks) = 2
    /\ Len(out) = 4
    /\ out[1] = WindowsUsageHint

\* C8: the dispatcher constructs exactly one backend per run, the POSIX one
\* iff os.name is posix and the Windows one iff it is nt; for any other OS
\* it prints "OS not supported!" and does nothing else, whatever the selector.
C8_OneBackendPerOS ==
    /\ Len(constructed) <= 1
    /\ pc # "main" =>
        /\ osName = "posix" <=> constructed = <<"LinuxOSDiskChecker">>
        /\ osName = "nt" <=> constructed = <<"WindowsOSDiskChecker">>
        /\ osName \notin {"posix", "nt"} =>
            /\ constructed = <<>>
            /\ pc = "done"
            /\ out = <<Line("OS not supported!", <<>>)>>
            /\ started = "none"
            /\ enumCalls = 0
            /\ scopedCalls = <<>>
            /\ fault = "none"

\* another OS, a selector given: only the message was printed
C8_Witness ==
    /\ pc = "done" /\ osName = "java" /\ disk.some
    /\ out = <<Unsupported>>

\* the disk-type rows of a listing: the rows whose TYPE field equals "disk",
\* each as [ '/dev/' + NAME, SIZE ], in the order printed
RECURSIVE DiskTypeRecords(_)
DiskTypeRecords(lines) ==
    IF lines = <<>> THEN <<>>
    ELSE LET f == SplitWs(Head(lines))
         IN  (IF Len(f) = 3 /\ f[2] = TextDisk
              THEN << <<TextDev \o f[1], f[3]>> >> ELSE <<>>)
             \o DiskTypeRecords(Tail(lines))

\* C9: on POSIX, enumerate-all(returnData=true) returns exactly one
\* [device path, size] record for each disk-type row of the listing and none
\* for any other row (such as a partition whose name contains 'disk'), in
\* the order printed, with path '/dev/' + name and the row's size.
C9_OnlyDiskTypeRows ==
    (OnLinux /\ DescribeOneRan /\ SelectorIsInt)
    => disks_list = DiskTypeRecords(lsblk)

\* C10: on Windows, enumerate-all(returnData=true) with D disks and V
\* volumes returns D tuples in order with indices 1..D, the k-th with the
\* k-th volume appended for k <= min(D, V) and none for k > V; further
\* volumes are dropped and no error is raised when D differs from V, so
\* describe-one on a disk k > V prints that disk's fields without a volume.
C10_PositionalZip ==
    (OnWindows /\ DescribeOneRan /\ SelectorIsInt)
    => /\ fault = "none"
       /\ Len(hard_drives) = Len(win32_disks)
       /\ \A k \in 1..Len(hard_drives) :
            /\ hard_drives[k].index = k
            /\ hard_drives[k].fields = WindowsDrivesData(win32_disks)[k].fields
            /\ hard_drives[k].volume =
                 (IF k <= Len(volumes) THEN <<volumes[k]>> ELSE <<>>)
       /\ (SelectorInt \in 1..Len(win32_disks) /\ SelectorInt > Len(volumes)) =>
            out = <<Line("'  '.join",
                         <<Str(SelectorInt)>>
                             \o WindowsDrivesData(win32_disks)[SelectorInt].fields)>>

\* Windows, two disks and one volume, selector "2": four fields, no volume
C10_Witness ==
    /\ pc = "done" /\ OnWindows /\ started = "check_specific_drive"
    /\ disk.val = <<"2">>
    /\ Len(win32_disks) = 2 /\ Len(volumes) = 1
    /\ hard_drives[1].volume = <<volumes[1]>>
    /\ Len(out) = 1 /\ Len(out[1].args) = 4

====

